---- MODULE Spec2Model ----
(***************************************************************************)
(* Model of src/app.py: a Streamlit document-search application.  One step  *)
(* of the model is one run of main() (the script), started either by a user *)
(* event on a widget that the previous run rendered, or by                  *)
(* st.experimental_rerun().  The state is st.session_state, the server-side *)
(* widget store, and what the last run put on the page.                     *)
(*                                                                          *)
(* Strings that the code splits on '_' (library names, doc ids) are         *)
(* represented by the sequence of their '_'-free parts, which determines    *)
(* the string: "Ayala_Legal_Docs" is <<"Ayala", "Legal", "Docs">>.  Then    *)
(* f"{a}_{b}" is concatenation of sequences, s.split('_') is the sequence   *)
(* itself and '_'.join(parts) is the sequence of the parts.                 *)
(***************************************************************************)
EXTENDS Integers, Sequences, FiniteSets, TLC

VARIABLES
    search_results,         \* st.session_state.search_results: NONE_LIST or a sequence of documents
    selected_doc_id,        \* st.session_state.selected_doc_id: NONE_ID or a doc id
    selected_people,        \* st.session_state.selected_people (a set)
    selected_organizations, \* st.session_state.selected_organizations (a set)
    selected_locations,     \* st.session_state.selected_locations (a set)
    show_similar_docs,      \* st.session_state.show_similar_docs
    similar_docs,           \* st.session_state.similar_docs (a sequence)
    similar_doc_history,    \* st.session_state.similar_doc_history (a sequence)
    current_doc_content,    \* st.session_state.current_doc_content: NONE_DOC or a document
    document_summaries,     \* st.session_state.document_summaries: doc name -> summary
    viewing_document,       \* st.session_state.viewing_document
    widget_state,           \* Streamlit's store: checkbox widget id -> value, for the widgets of the last run
    search_query,           \* value of the st.text_input of the search page
    rerun,                  \* the last run ended in st.experimental_rerun(): the script runs again at once
    page,                   \* what the last run of main() did and rendered (a record, see Page)
    fn                      \* input and result of the function applied by the function-level specifications

vars == <<search_results, selected_doc_id, selected_people, selected_organizations,
          selected_locations, show_similar_docs, similar_docs, similar_doc_history,
          current_doc_content, document_summaries, viewing_document, widget_state,
          search_query, rerun, page, fn>>

session == <<search_results, selected_doc_id, selected_people, selected_organizations,
             selected_locations, show_similar_docs, similar_docs, similar_doc_history,
             current_doc_content, document_summaries, viewing_document>>

-----------------------------------------------------------------------------
(* Bounds of the model.                                                     *)

MaxResults == 2     \* most documents one call of the search service returns
MaxSimilar == 1     \* most documents one graph query returns
MaxHistory == 2     \* most entries of similar_doc_history
MaxFetched == 1     \* most documents the fetch of one similar document returns
MaxSelected == 2    \* most names per category drawn for get_related_documents
MaxGroupInput == 3  \* most results drawn for group_by_library

-----------------------------------------------------------------------------
(* Python values.                                                           *)

NULL == "<None>"            \* the value None of a field that is present
ABSENT == "<absent>"        \* a key that the dictionary does not have
NONE_ID == <<>>             \* None where the code expects a doc id
LIB_NULL == <<NULL>>        \* Library: None
LIB_ABSENT == <<ABSENT>>    \* no Library key

\* dict.get(key, default) for a scalar field
Get(value, default) == IF value = ABSENT THEN default ELSE value

\* dict.get('Library', default)
GetLibrary(value, default) == IF value = LIB_ABSENT THEN default ELSE value

\* str(x) of a library value: str(None) is 'None'
StrLibrary(lib) == IF lib = LIB_NULL THEN <<"None">> ELSE lib

\* bool(x) of a scalar field value: None and '' are false
Truthy(value) == value \notin {NULL, ABSENT, ""}

Range(s) == {s[i] : i \in 1..Len(s)}

Last(s) == s[Len(s)]

\* list(a_set): the elements of the set, each once, in an order Python does not fix
ListsOf(S) == {s \in [1..Cardinality(S) -> S] : Range(s) = S}

-----------------------------------------------------------------------------
(* GroqAnalyzer.generate_summary                                            *)

ShortWords == 500   \* fewer words than this: a three-point summary
LongWords == 1000   \* fewer words than this: a five-point summary

\* len(content.split()) of the contents the model uses
Words(content) ==
    CASE content = "" -> 0
      [] content = "short text" -> 120
      [] content = "medium text" -> 700
      [] content = "long text" -> 1500

\* content[:4000]: only the long text is longer than that
First4000(content) == IF content = "long text" THEN "long text[:4000]" ELSE content

NoSummary == [kind |-> "none", points |-> "", content |-> ""]

\* What the call returns or that it raises.  llm_ok: the chat completion
\* succeeds.  The model's answer is taken to be determined by the prompt.
\* None has no split(): line 25 is outside the try and raises AttributeError.
generate_summary(content, llm_ok) ==
    IF content = NULL
    THEN [raised |-> TRUE, text |-> NoSummary]
    ELSE LET content_words == Words(content)
             points == IF content_words < ShortWords THEN "three"
                       ELSE IF content_words < LongWords THEN "five"
                       ELSE "seven"
         IN  IF llm_ok
             THEN [raised |-> FALSE,
                   text |-> [kind |-> "summary", points |-> points,
                             content |-> First4000(content)]]
             ELSE [raised |-> FALSE,
                   text |-> [kind |-> "Error generating summary: ", points |-> "",
                             content |-> ""]]

-----------------------------------------------------------------------------
(* search_documents                                                         *)

\* A handler that returns None instead of the empty list
search_documents_none(service) ==
    IF service.fails
    THEN [results |-> <<[DocumentName |-> "<no document>", Library |-> <<"<absent>">>,
                        merged_content |-> "<absent>", people |-> <<>>,
                        organizations |-> <<>>, locations |-> <<>>, meta |-> <<>>]>>,
          error |-> TRUE]
    ELSE [results |-> service.docs, error |-> FALSE]

\* service: [fails, docs], what client.search does on this call.
\* Returns the list and whether st.error was called.
search_documents(service) ==
    IF service.fails
    THEN [results |-> <<>>, error |-> TRUE]
    ELSE [results |-> service.docs, error |-> FALSE]

-----------------------------------------------------------------------------
(* get_related_documents                                                    *)

\* The function with the location condition put before the organization one
get_related_documents_reordered(people_list, orgs_list, locations_list, graph) ==
    IF ~(people_list # <<>> \/ orgs_list # <<>> \/ locations_list # <<>>)
    THEN [result |-> <<>>, queries |-> <<>>, error |-> FALSE, raised |-> FALSE]
    ELSE LET query == [or_clause |->
                 (IF people_list # <<>>
                  THEN <<[names |-> people_list, label |-> "peopl"]>> ELSE <<>>)
                 \o (IF locations_list # <<>>
                     THEN <<[names |-> locations_list, label |-> "location"]>> ELSE <<>>)
                 \o (IF orgs_list # <<>>
                     THEN <<[names |-> orgs_list, label |-> "organization"]>> ELSE <<>>)]
         IN  [result |-> IF graph.fails THEN <<>> ELSE graph.docs, queries |-> <<query>>,
              error |-> graph.fails, raised |-> FALSE]

\* The function without its try: a failing query raises out of it
get_related_documents_raises(people_list, orgs_list, locations_list, graph) ==
    IF ~(people_list # <<>> \/ orgs_list # <<>> \/ locations_list # <<>>)
    THEN [result |-> <<>>, queries |-> <<>>, error |-> FALSE, raised |-> FALSE]
    ELSE LET query == [or_clause |->
                 (IF people_list # <<>>
                  THEN <<[names |-> people_list, label |-> "peopl"]>> ELSE <<>>)
                 \o (IF orgs_list # <<>>
                     THEN <<[names |-> orgs_list, label |-> "organization"]>> ELSE <<>>)
                 \o (IF locations_list # <<>>
                     THEN <<[names |-> locations_list, label |-> "location"]>> ELSE <<>>)]
         IN  [result |-> IF graph.fails THEN <<>> ELSE graph.docs, queries |-> <<query>>,
              error |-> FALSE, raised |-> graph.fails]

\* people_list, orgs_list, locations_list: list(selected_...), lines 213-215.
\* graph: [fails, docs], what gremlin_client.submit(query).all().result() does.
\* Returns the result, the queries submitted, whether st.error was called and
\* whether an exception leaves the function: the try spans the whole body.
get_related_documents(people_list, orgs_list, locations_list, graph) ==
    IF ~(people_list # <<>> \/ orgs_list # <<>> \/ locations_list # <<>>)
    THEN [result |-> <<>>, queries |-> <<>>, error |-> FALSE, raised |-> FALSE]
    ELSE LET c1 == IF people_list # <<>>
                   THEN <<[names |-> people_list, label |-> "peopl"]>> ELSE <<>>
             c2 == IF orgs_list # <<>>
                   THEN c1 \o <<[names |-> orgs_list, label |-> "organization"]>> ELSE c1
             or_conditions ==
                   IF locations_list # <<>>
                   THEN c2 \o <<[names |-> locations_list, label |-> "location"]>> ELSE c2
             query == [or_clause |-> or_conditions]
         IN  IF graph.fails
             THEN [result |-> <<>>, queries |-> <<query>>, error |-> TRUE, raised |-> FALSE]
             ELSE [result |-> graph.docs, queries |-> <<query>>, error |-> FALSE,
                   raised |-> FALSE]

-----------------------------------------------------------------------------
(* group_by_library                                                         *)

UnknownLibrary == <<"Unknown Library">>

\* An iteration that skips a result that its group already holds
GroupAdd_dedup(library_groups, result) ==
    LET library == IF result.Library = <<"<absent>">> THEN <<"Unknown Library">>
                   ELSE result.Library
    IN  IF \E i \in 1..Len(library_groups) : library_groups[i].library = library
        THEN [i \in 1..Len(library_groups) |->
                 IF library_groups[i].library = library
                    /\ \A k \in 1..Len(library_groups[i].docs) :
                          library_groups[i].docs[k] # result
                 THEN [library_groups[i] EXCEPT !.docs = Append(@, result)]
                 ELSE library_groups[i]]
        ELSE Append(library_groups, [library |-> library, docs |-> <<result>>])

\* One iteration of the loop: the dictionary is the sequence of its items,
\* in insertion order.
GroupAdd(library_groups, result) ==
    LET library == GetLibrary(result.Library, UnknownLibrary)
    IN  IF \E i \in 1..Len(library_groups) : library_groups[i].library = library
        THEN [i \in 1..Len(library_groups) |->
                 IF library_groups[i].library = library
                 THEN [library_groups[i] EXCEPT !.docs = Append(@, result)]
                 ELSE library_groups[i]]
        ELSE Append(library_groups, [library |-> library, docs |-> <<result>>])

RECURSIVE GroupLoop(_, _, _)
GroupLoop(library_groups, results, i) ==
    IF i > Len(results) THEN library_groups
    ELSE GroupLoop(GroupAdd(library_groups, results[i]), results, i + 1)

group_by_library(results) == GroupLoop(<<>>, results, 1)

\* sum(len(docs) for docs in grouped_results.values())
RECURSIVE TotalResults(_, _)
TotalResults(grouped_results, i) ==
    IF i > Len(grouped_results) THEN 0
    ELSE Len(grouped_results[i].docs) + TotalResults(grouped_results, i + 1)

-----------------------------------------------------------------------------
(* Documents.  A search result is a dictionary: DocumentName, Library and   *)
(* merged_content (each possibly None or missing), the three entity lists,  *)
(* and meta, the library-specific fields that the result has.               *)

Doc(name, library, content, people, orgs, locs, meta) ==
    [DocumentName |-> name, Library |-> library, merged_content |-> content,
     people |-> people, organizations |-> orgs, locations |-> locs, meta |-> meta]

\* None where the code expects a document, and where it expects a list of them
NONE_DOC == Doc("<no document>", LIB_ABSENT, ABSENT, <<>>, <<>>, <<>>, <<>>)
NONE_LIST == <<NONE_DOC>>

\* doc.get(field): None when the key is missing
Field(doc, field) ==
    IF \E i \in 1..Len(doc.meta) : doc.meta[i][1] = field
    THEN LET i == CHOOSE i \in 1..Len(doc.meta) : doc.meta[i][1] = field
         IN  doc.meta[i][2]
    ELSE NULL

\* The value as it is, also when it is None or empty
OrNA_asis(value) == value

\* doc.get(field) or "N/A"
OrNA(value) == IF Truthy(value) THEN value ELSE "N/A"

General == <<"General">>
HR == <<"HR">>
Florix == <<"Florix">>
DFTROPIO == <<"DFTROPIO">>
Finance == <<"Finance">>
Ayala_Annual_Report == <<"Ayala", "Annual", "Report">>
Ayala_Legal_Docs == <<"Ayala", "Legal", "Docs">>

KnownLibraries ==
    {General, HR, Florix, DFTROPIO, Finance, Ayala_Annual_Report, Ayala_Legal_Docs}

\* The metadata dictionaries of display_document_content: label and field,
\* in the order of the dictionary.
MetadataFields(library) ==
    CASE library = General ->
           << <<"Document Type", "Doc_Type_General">>, <<"Date", "Date_General">>,
              <<"Remarks", "Remarks_General">> >>
      [] library = HR ->
           << <<"Employee Number", "Employee_No_HR">>, <<"Department", "Department_HR">>,
              <<"Document Type", "Document_Type_HR">>, <<"Name", "Name_HR">>,
              <<"Date", "Date_HR">>, <<"Country", "Country_HR">> >>
      [] library = Florix ->
           << <<"Document Type", "Document_Type_Florix">>, <<"Remarks", "Remarks_Florix">> >>
      [] library = DFTROPIO ->
           << <<"Serial No", "SERIAL_NO_DFTROPIO">>, <<"Name", "Name_DFTROPIO">>,
              <<"DOB", "DOB_DFTROPIO">>, <<"Book Category", "BOOK_CATEGORY_DFTROPIO">>,
              <<"Description", "DESCRIPTION_DFTROPIO">>,
              <<"Volume Number", "VOLUME_NUMBER_DFTROPIO">>,
              <<"Serial Range", "SERIAL_RANGE_DFTROPIO">>,
              <<"Act Number", "ACT_NUMBER_DFTROPIO">> >>
      [] library = Finance ->
           << <<"Document ID", "Document_ID_Finance">>,
              <<"Document Type", "Document_Type_Finance">>, <<"Date", "Date_Finance">>,
              <<"Info", "Info_Finance">> >>
      [] library = Ayala_Annual_Report ->
           << <<"Name", "Name_Ayala_Annual_Report">>, <<"Year", "Year_Ayala_Annual_Report">>,
              <<"Document Type", "DocumentType_Ayala_Annual_Report">>,
              <<"Remarks", "Remarks_Ayala_Annual_Report">> >>
      [] library = Ayala_Legal_Docs ->
           << <<"Name", "Name_Ayala_Legal_Docs">>,
              <<"Document Type", "DocumentType_Ayala_Legal_Docs">>,
              <<"Remarks", "Remarks_Ayala_Legal_Docs">> >>
      [] OTHER -> <<>>

\* The metadata section of display_document_content: the rows shown, and
\* whether the "No specific metadata fields available" line is written.
DocumentMetadata(doc) ==
    LET library == GetLibrary(doc.Library, <<"Unknown">>)
        fields == MetadataFields(library)
    IN  IF library \in KnownLibraries
        THEN [rows |-> [i \in 1..Len(fields) |->
                          [label |-> fields[i][1], field |-> fields[i][2],
                           value |-> OrNA(Field(doc, fields[i][2]))]],
              no_fields_message |-> FALSE]
        ELSE [rows |-> <<>>, no_fields_message |-> TRUE]

\* The fields whose values the rows of display_<library>_library_table show.
TableColumns(library) ==
    CASE library = General -> <<"Doc_Type_General", "Date_General", "Remarks_General">>
      [] library = HR ->
           <<"Employee_No_HR", "Department_HR", "Document_Type_HR", "Name_HR", "Date_HR">>
      [] library = Florix -> <<"Document_Type_Florix", "Remarks_Florix">>
      [] library = DFTROPIO ->
           <<"SERIAL_NO_DFTROPIO", "Name_DFTROPIO", "DOB_DFTROPIO", "BOOK_CATEGORY_DFTROPIO",
             "DESCRIPTION_DFTROPIO", "VOLUME_NUMBER_DFTROPIO", "SERIAL_RANGE_DFTROPIO",
             "ACT_NUMBER_DFTROPIO">>
      [] library = Finance ->
           <<"Document_ID_Finance", "Document_Type_Finance", "Date_Finance", "Info_Finance">>
      [] library = Ayala_Annual_Report ->
           <<"Name_Ayala_Annual_Report", "Year_Ayala_Annual_Report",
             "DocumentType_Ayala_Annual_Report", "Remarks_Ayala_Annual_Report">>
      [] library = Ayala_Legal_Docs ->
           <<"Name_Ayala_Legal_Docs", "DocumentType_Ayala_Legal_Docs",
             "Remarks_Ayala_Legal_Docs">>
      [] OTHER -> <<>>

-----------------------------------------------------------------------------
(* Doc ids.                                                                 *)

Digits == <<"0", "1", "2", "3", "4", "5", "6", "7", "8", "9">>

\* f"{idx}" of an index below 10, and int() of such a string
IdxStr(idx) == Digits[idx + 1]
IntOf(idx_str) == (CHOOSE i \in 1..Len(Digits) : Digits[i] = idx_str) - 1

\* The doc ids of the rows that display_library_documents renders for one
\* group: "<Library>_<idx>" with the literal name of the table function for
\* a known library, f"{library}_{idx}" in the default branch.
display_library_documents(library, documents) ==
    [idx0 \in 1..Len(documents) |->
        IF library \in KnownLibraries
        THEN library \o <<IdxStr(idx0 - 1)>>
        ELSE StrLibrary(library) \o <<IdxStr(idx0 - 1)>>]

\* main(), lines 1319-1326: library and index of a doc id
ParseDocId(doc_id) ==
    LET doc_id_parts == doc_id
    IN  IF Len(doc_id_parts) >= 2
        THEN [library |-> SubSeq(doc_id_parts, 1, Len(doc_id_parts) - 1),
              idx |-> IntOf(Last(doc_id_parts))]
        ELSE [library |-> <<doc_id_parts[1]>>, idx |-> 0]

\* main(), lines 1329-1333: the documents of the first group whose key
\* equals the parsed library
LibraryDocs(groups, library) ==
    IF \E i \in 1..Len(groups) : groups[i].library = library
    THEN groups[CHOOSE i \in 1..Len(groups) : groups[i].library = library].docs
    ELSE <<>>

\* get_hash(text): md5 of str(text), taken to be injective
get_hash(text) == <<"md5", IF text = ABSENT THEN NULL ELSE text>>

-----------------------------------------------------------------------------
(* st.checkbox.  Streamlit identifies a widget by its key together with its *)
(* parameters, the default value among them: a checkbox whose `value`       *)
(* argument differs from the last run's is a new widget and starts at that  *)
(* default; a widget that a run rendered keeps its state for the next run.  *)

CheckboxId(kind, doc_id, name, default) == <<kind, doc_id, name, default>>

\* widgets: the store, a set of [id, value]
checkbox(widgets, id) ==
    IF \E w \in widgets : w.id = id
    THEN (CHOOSE w \in widgets : w.id = id).value
    ELSE id[4]

\* One entity column of display_document_content (lines 634-642): for each
\* listed name, add it when its checkbox is checked, discard it otherwise.
\* Returns the selected set and the checkboxes rendered, with their values.
RECURSIVE CheckboxLoop(_, _, _, _, _, _, _)
CheckboxLoop(kind, doc_id, names, i, selected, rendered, widgets) ==
    IF i > Len(names) THEN [selected |-> selected, rendered |-> rendered]
    ELSE LET id == CheckboxId(kind, doc_id, names[i], names[i] \in selected)
             checked == checkbox(widgets, id)
         IN  CheckboxLoop(kind, doc_id, names, i + 1,
                          IF checked THEN selected \cup {names[i]}
                                     ELSE selected \ {names[i]},
                          rendered \cup {[id |-> id, value |-> checked]}, widgets)

-----------------------------------------------------------------------------
(* The hosted services.                                                     *)

DocA == Doc("A", General, "short text", <<"p1">>, <<"o1">>, <<>>,
            << <<"Doc_Type_General", "memo">>, <<"Date_General", "">> >>)
DocB == Doc("A", Ayala_Legal_Docs, "long text", <<>>, <<>>, <<"l1">>,
            << <<"Name_Ayala_Legal_Docs", "deed">>, <<"Remarks_Ayala_Legal_Docs", NULL>> >>)
DocC == Doc(ABSENT, LIB_NULL, NULL, <<>>, <<>>, <<>>, <<>>)

\* The documents of the search index
Corpus == {DocA, DocB, DocC}

\* The sequences of at most n distinct elements of S
DistinctSeqs(S, n) ==
    UNION {{s \in [1..k -> S] : Cardinality(Range(s)) = k} : k \in 0..n}

\* What one call of client.search can do: raise, or return documents
SearchOutcomes ==
    {[fails |-> TRUE, docs |-> <<>>]}
        \cup {[fails |-> FALSE, docs |-> d] : d \in DistinctSeqs(Corpus, MaxResults)}

\* What the search for one document name can do (line 1232)
FetchOutcomes ==
    {[fails |-> TRUE, docs |-> <<>>]}
        \cup {[fails |-> FALSE, docs |-> d] : d \in DistinctSeqs(Corpus, MaxFetched)}

\* The documents of the graph: name and library (matched_entities, which
\* only colours the list, is left out)
GraphDocs == {[document |-> "A", library |-> General],
              [document |-> "D", library |-> Ayala_Legal_Docs]}

\* What one gremlin query can do: raise, or return documents
GraphOutcomes ==
    {[fails |-> TRUE, docs |-> <<>>]}
        \cup {[fails |-> FALSE, docs |-> d] : d \in DistinctSeqs(GraphDocs, MaxSimilar)}

\* The search texts the user types
Queries == {"", "contract"}

-----------------------------------------------------------------------------
(* The page: what one run of main() did.                                    *)

NoMetadata == [rows |-> <<>>, no_fields_message |-> FALSE]

BlankPage ==
    [view |-> "none",           \* the branch of main() that ran
     saw |-> <<FALSE, FALSE>>,  \* viewing_document and show_similar_docs when the run began
     event |-> "",              \* the user event that led to the run, directly or by a rerun
     displayed |-> NONE_DOC,    \* the document given to display_document_content
     summary |-> NoSummary,     \* the summary text shown
     metadata |-> NoMetadata,   \* the metadata section shown
     messages |-> {},           \* st.error, st.warning and st.info lines
     queries |-> <<>>,          \* the graph queries submitted
     related |-> <<>>,          \* what get_related_documents returned, when it was called
     failed |-> {},             \* the services that raised during the run
     raised |-> "",             \* the exception that ended the run, if one did
     groups |-> <<>>,           \* the result groups rendered on the search page
     total |-> -1,              \* the N of "Found N documents", when written
     buttons |-> {}]            \* the doc ids of the view buttons rendered

NoFn == [name |-> "", input |-> <<>>, output |-> <<>>, done |-> TRUE]

\* A cache that never finds an entry
HasSummary_never(summaries, doc_name) == FALSE

\* document_summaries is a set of [name, text], one per key
HasSummary(summaries, doc_name) == \E e \in summaries : e.name = doc_name
SummaryOf(summaries, doc_name) == (CHOOSE e \in summaries : e.name = doc_name).text

Init ==
    /\ search_results = NONE_LIST
    /\ selected_doc_id = NONE_ID
    /\ selected_people = {}
    /\ selected_organizations = {}
    /\ selected_locations = {}
    /\ show_similar_docs = FALSE
    /\ similar_docs = <<>>
    /\ similar_doc_history = <<>>
    /\ current_doc_content = NONE_DOC
    /\ document_summaries = {}
    /\ viewing_document = FALSE
    /\ widget_state = {}
    /\ search_query = ""
    /\ rerun = TRUE     \* the browser connecting starts the first run
    /\ page = BlankPage
    /\ fn = NoFn

-----------------------------------------------------------------------------
\* An entry that records the people only
HistoryEntry_people_only(people_list, orgs_list, locations_list) ==
    [people |-> people_list, organizations |-> <<>>, locations |-> <<>>]

\* Lines 733-739: the entry appended to similar_doc_history (its 'entities')
HistoryEntry(people_list, orgs_list, locations_list) ==
    [people |-> people_list, organizations |-> orgs_list, locations |-> locations_list]

\* A view that keeps the selections it finds
ResetSelections_keep(is_similar_view, selected) == selected

\* Lines 624-627: the selected set that the checkboxes of one column start from
ResetSelections(is_similar_view, selected) == IF is_similar_view THEN {} ELSE selected

\* The button without the test
AlwaysSelected(people, orgs, locs) == TRUE

\* Lines 724-726: the test under the Find Similar Documents button
SomeSelected(people, orgs, locs) == people # {} \/ orgs # {} \/ locs # {}

(* display_document_content.  ev is the event that started the run, widgets *)
(* the widget store after that event, P0 the page so far.                   *)

display_document_content(doc, doc_id, is_similar_view, ev, widgets, P0) ==
    LET doc_name == Get(doc.DocumentName, "Untitled Document")
        cached == HasSummary(document_summaries, doc_name)
    IN  \E llm_ok \in (IF cached THEN {TRUE} ELSE BOOLEAN) :
        LET gen == generate_summary(Get(doc.merged_content, ""), llm_ok)
        IN  IF ~cached /\ gen.raised
            THEN \* the exception leaves main(): the run stops here
                 /\ page' = [P0 EXCEPT !.raised = "AttributeError"]
                 /\ rerun' = FALSE
                 /\ UNCHANGED <<session, widget_state, search_query, fn>>
            ELSE
            LET summaries == IF cached THEN document_summaries
                             ELSE document_summaries \cup {[name |-> doc_name, text |-> gen.text]}
                P1 == [P0 EXCEPT !.displayed = doc,
                                 !.failed = IF ~cached /\ ~llm_ok THEN {"llm"} ELSE {},
                                 !.summary = SummaryOf(summaries, doc_name),
                                 !.metadata = DocumentMetadata(doc)]
                \* lines 624-627
                cp == CheckboxLoop("person", doc_id, doc.people, 1,
                                   ResetSelections(is_similar_view, selected_people),
                                   {}, widgets)
                co == CheckboxLoop("org", doc_id, doc.organizations, 1,
                                   ResetSelections(is_similar_view, selected_organizations),
                                   {}, widgets)
                cl == CheckboxLoop("location", doc_id, doc.locations, 1,
                                   ResetSelections(is_similar_view, selected_locations),
                                   {}, widgets)
                some_selected == SomeSelected(cp.selected, co.selected, cl.selected)
            IN  /\ document_summaries' = summaries
                /\ widget_state' = cp.rendered \cup co.rendered \cup cl.rendered
                /\ search_query' = ""
                /\ UNCHANGED <<selected_doc_id, current_doc_content, fn>>
                /\ CASE ev = "clear" ->
                          \* lines 711-716
                          /\ selected_people' = {}
                          /\ selected_organizations' = {}
                          /\ selected_locations' = {}
                          /\ rerun' = TRUE
                          /\ page' = P1
                          /\ UNCHANGED <<search_results, show_similar_docs, similar_docs,
                                         similar_doc_history, viewing_document>>
                     [] ev = "similar" /\ some_selected ->
                          \* lines 728-752
                          /\ Len(similar_doc_history) < MaxHistory
                          /\ \E people_list \in ListsOf(cp.selected),
                                orgs_list \in ListsOf(co.selected),
                                locations_list \in ListsOf(cl.selected),
                                graph \in GraphOutcomes :
                             LET related == get_related_documents(people_list, orgs_list,
                                                                  locations_list, graph)
                             IN  /\ similar_doc_history' =
                                        Append(similar_doc_history,
                                               HistoryEntry(people_list, orgs_list,
                                                            locations_list))
                                 /\ similar_docs' = IF related.raised THEN similar_docs
                                                    ELSE IF related.result # <<>>
                                                    THEN related.result ELSE <<>>
                                 /\ rerun' = ~related.raised
                                 /\ page' = [P1 EXCEPT
                                        !.queries = related.queries,
                                        !.related = related.result,
                                        !.failed = IF graph.fails /\ related.queries # <<>>
                                                   THEN P1.failed \cup {"graph"}
                                                   ELSE P1.failed,
                                        !.raised = IF related.raised THEN "Exception" ELSE "",
                                        !.messages = IF related.error
                                                     THEN {"Error querying related documents"}
                                                     ELSE {}]
                          /\ selected_people' = cp.selected
                          /\ selected_organizations' = co.selected
                          /\ selected_locations' = cl.selected
                          /\ show_similar_docs' = TRUE
                          /\ viewing_document' = FALSE
                          /\ search_results' = NONE_LIST
                     [] ev = "similar" /\ ~some_selected ->
                          \* line 754
                          /\ selected_people' = cp.selected
                          /\ selected_organizations' = co.selected
                          /\ selected_locations' = cl.selected
                          /\ rerun' = FALSE
                          /\ page' = [P1 EXCEPT !.messages =
                                        {"Please select at least one entity to find similar documents."}]
                          /\ UNCHANGED <<search_results, show_similar_docs, similar_docs,
                                         similar_doc_history, viewing_document>>
                     [] OTHER ->
                          /\ selected_people' = cp.selected
                          /\ selected_organizations' = co.selected
                          /\ selected_locations' = cl.selected
                          /\ rerun' = FALSE
                          /\ page' = P1
                          /\ UNCHANGED <<search_results, show_similar_docs, similar_docs,
                                         similar_doc_history, viewing_document>>

-----------------------------------------------------------------------------
(* display_similar_documents.  arg: the document name of the View Document  *)
(* button clicked, when ev = "view_similar".                                *)

\* A pop that removes nothing
pop_nothing(history) == history

\* Line 1166: similar_doc_history.pop(), the list that is left
pop(history) == SubSeq(history, 1, Len(history) - 1)

display_similar_documents(ev, arg, P0) ==
    /\ widget_state' = {}
    /\ search_query' = ""
    /\ UNCHANGED <<selected_doc_id, document_summaries, search_results, fn>>
    /\ IF similar_docs = <<>>
       THEN \* lines 1145-1151
            /\ IF ev = "back_to_search"
               THEN /\ show_similar_docs' = FALSE
                    /\ similar_doc_history' = <<>>
                    /\ rerun' = TRUE
               ELSE /\ rerun' = FALSE
                    /\ UNCHANGED <<show_similar_docs, similar_doc_history>>
            /\ page' = [P0 EXCEPT !.messages =
                          {"No similar documents found with the selected entities."}]
            /\ UNCHANGED <<selected_people, selected_organizations, selected_locations,
                           similar_docs, current_doc_content, viewing_document>>
       ELSE CASE ev = "back_to_search" ->
                   \* lines 1156-1160
                   /\ show_similar_docs' = FALSE
                   /\ similar_doc_history' = <<>>
                   /\ current_doc_content' = NONE_DOC
                   /\ rerun' = TRUE
                   /\ page' = P0
                   /\ UNCHANGED <<selected_people, selected_organizations,
                                  selected_locations, similar_docs, viewing_document>>
              [] ev = "previous" /\ Len(similar_doc_history) > 1 ->
                   \* lines 1164-1187
                   LET popped == pop(similar_doc_history)
                       previous_state == Last(popped)
                       people == Range(previous_state.people)
                       orgs == Range(previous_state.organizations)
                       locs == Range(previous_state.locations)
                   IN  /\ similar_doc_history' = popped
                       /\ selected_people' = people
                       /\ selected_organizations' = orgs
                       /\ selected_locations' = locs
                       /\ current_doc_content' = NONE_DOC
                       /\ \E people_list \in ListsOf(people), orgs_list \in ListsOf(orgs),
                             locations_list \in ListsOf(locs), graph \in GraphOutcomes :
                          LET related == get_related_documents(people_list, orgs_list,
                                                               locations_list, graph)
                          IN  /\ similar_docs' = IF related.result # <<>> /\ ~related.raised
                                                 THEN related.result ELSE similar_docs
                              /\ rerun' = ~related.raised
                              /\ page' = [P0 EXCEPT
                                     !.queries = related.queries,
                                     !.related = related.result,
                                     !.failed = IF graph.fails /\ related.queries # <<>>
                                                THEN {"graph"} ELSE {},
                                     !.raised = IF related.raised THEN "Exception" ELSE "",
                                     !.messages = IF related.error
                                                  THEN {"Error querying related documents"}
                                                  ELSE {}]
                       /\ UNCHANGED <<show_similar_docs, viewing_document>>
              [] ev = "view_similar" /\ \E i \in 1..Len(similar_docs) :
                                            similar_docs[i].document = arg ->
                   \* lines 1228-1239
                   \E service \in FetchOutcomes :
                      LET found == search_documents(service)
                      IN  /\ IF found.results # <<>>
                             THEN /\ current_doc_content' = found.results[1]
                                  /\ viewing_document' = TRUE
                                  /\ rerun' = TRUE
                             ELSE /\ rerun' = FALSE
                                  /\ UNCHANGED <<current_doc_content, viewing_document>>
                          /\ page' = [P0 EXCEPT
                                 !.failed = IF service.fails THEN {"search"} ELSE {},
                                 !.messages = IF found.error THEN {"Search failed"} ELSE {}]
                          /\ UNCHANGED <<selected_people, selected_organizations,
                                         selected_locations, show_similar_docs, similar_docs,
                                         similar_doc_history>>
              [] OTHER ->
                   /\ rerun' = FALSE
                   /\ page' = P0
                   /\ UNCHANGED <<selected_people, selected_organizations, selected_locations,
                                  show_similar_docs, similar_docs, similar_doc_history,
                                  current_doc_content, viewing_document>>

-----------------------------------------------------------------------------
(* main()                                                                   *)

\* The doc ids of all view buttons of the search page (lines 1361-1367)
RenderedButtons(grouped_results) ==
    UNION {Range(display_library_documents(grouped_results[i].library,
                                           grouped_results[i].docs)) :
              i \in 1..Len(grouped_results)}

\* A search page that resets nothing
NewSearchReset_none == UNCHANGED <<similar_doc_history, current_doc_content>>

\* Lines 1340-1342: the reset when a new search starts
NewSearchReset ==
    /\ similar_doc_history' = <<>>
    /\ current_doc_content' = NONE_DOC

\* Lines 1339-1367.  arg: the text typed when ev = "query", the doc id of
\* the view button clicked when ev = "view".
SearchPage(ev, arg, P0) ==
    LET search_text == IF ev = "query" THEN arg ELSE search_query
    IN  /\ NewSearchReset
        /\ search_query' = search_text
        /\ widget_state' = {}
        /\ UNCHANGED <<selected_people, selected_organizations, selected_locations,
                       show_similar_docs, similar_docs, document_summaries, fn>>
        /\ \E service \in (IF search_text # "" THEN SearchOutcomes
                           ELSE {[fails |-> FALSE, docs |-> <<>>]}) :
           LET found == search_documents(service)
               results == IF search_text # "" THEN found.results ELSE search_results
               shown == results # NONE_LIST /\ results # <<>>
               grouped_results == IF shown THEN group_by_library(results) ELSE <<>>
               buttons == RenderedButtons(grouped_results)
               clicked == ev = "view" /\ arg \in buttons
           IN  /\ search_results' = results
               /\ page' = [P0 EXCEPT
                      !.failed = IF search_text # "" /\ service.fails
                                 THEN {"search"} ELSE {},
                      !.messages = IF search_text # "" /\ found.error
                                   THEN {"Search failed"} ELSE {},
                      !.groups = grouped_results,
                      !.total = IF shown THEN TotalResults(grouped_results, 1) ELSE -1,
                      !.buttons = buttons]
               /\ IF clicked
                  THEN /\ selected_doc_id' = arg
                       /\ viewing_document' = TRUE
                       /\ rerun' = TRUE
                  ELSE /\ rerun' = FALSE
                       /\ UNCHANGED <<selected_doc_id, viewing_document>>

\* Lines 1303-1336
DocumentPage(ev, widgets, P0) ==
    IF ev = "back"
    THEN /\ viewing_document' = FALSE
         /\ rerun' = TRUE
         /\ widget_state' = {}
         /\ search_query' = ""
         /\ page' = P0
         /\ UNCHANGED <<search_results, selected_doc_id, selected_people,
                        selected_organizations, selected_locations, show_similar_docs,
                        similar_docs, similar_doc_history, current_doc_content,
                        document_summaries, fn>>
    ELSE IF show_similar_docs /\ current_doc_content # NONE_DOC
    THEN display_document_content(current_doc_content,
                                  get_hash(current_doc_content.DocumentName),
                                  TRUE, ev, widgets, P0)
    ELSE IF selected_doc_id # NONE_ID /\ search_results = NONE_LIST
    THEN \* group_by_library(None): 'NoneType' object is not iterable
         /\ page' = [P0 EXCEPT !.raised = "TypeError"]
         /\ rerun' = FALSE
         /\ UNCHANGED <<session, widget_state, search_query, fn>>
    ELSE LET parsed == ParseDocId(selected_doc_id)
             library_docs == LibraryDocs(group_by_library(search_results), parsed.library)
         IN  IF selected_doc_id # NONE_ID /\ parsed.idx < Len(library_docs)
             THEN display_document_content(library_docs[parsed.idx + 1], selected_doc_id,
                                           FALSE, ev, widgets, P0)
             ELSE \* nothing but the back button is rendered
                  /\ page' = P0
                  /\ rerun' = FALSE
                  /\ widget_state' = {}
                  /\ search_query' = ""
                  /\ UNCHANGED <<session, fn>>

\* The dispatch with the two tests in the other order
main_similar_first(ev, arg, widgets) ==
    LET P0 == [BlankPage EXCEPT !.saw = <<viewing_document, show_similar_docs>>,
                                !.event = IF ev = "rerun" THEN page.event ELSE ev]
    IN  IF show_similar_docs
        THEN display_similar_documents(ev, arg, [P0 EXCEPT !.view = "similar"])
        ELSE IF viewing_document
        THEN DocumentPage(ev, widgets, [P0 EXCEPT !.view = "document"])
        ELSE SearchPage(ev, arg, [P0 EXCEPT !.view = "search"])

\* One run of the script
main(ev, arg, widgets) ==
    LET P0 == [BlankPage EXCEPT !.saw = <<viewing_document, show_similar_docs>>,
                                !.event = IF ev = "rerun" THEN page.event ELSE ev]
    IN  IF viewing_document
        THEN DocumentPage(ev, widgets, [P0 EXCEPT !.view = "document"])
        ELSE IF show_similar_docs
        THEN display_similar_documents(ev, arg, [P0 EXCEPT !.view = "similar"])
        ELSE SearchPage(ev, arg, [P0 EXCEPT !.view = "search"])

-----------------------------------------------------------------------------
(* The events: st.experimental_rerun(), and the user acting on a widget of  *)
(* the page that the last run rendered.                                     *)

Idle == ~rerun /\ page.raised = ""

\* the document view was rendered to its end
DocumentShown == Idle /\ page.view = "document" /\ page.displayed # NONE_DOC

Rerun == rerun /\ main("rerun", "", widget_state)

TypeQuery ==
    /\ Idle /\ page.view = "search"
    /\ \E text \in Queries \ {search_query} : main("query", text, widget_state)

ClickView ==
    /\ Idle /\ page.view = "search"
    /\ \E doc_id \in page.buttons : main("view", doc_id, widget_state)

\* the back button is rendered before anything that can raise
ClickBack == ~rerun /\ page.view = "document" /\ main("back", "", widget_state)

ToggleCheckbox ==
    /\ DocumentShown
    /\ \E w \in widget_state :
          main("toggle", "", (widget_state \ {w}) \cup {[w EXCEPT !.value = ~w.value]})

ClearEntities == DocumentShown /\ main("clear", "", widget_state)

FindSimilar == DocumentShown /\ main("similar", "", widget_state)

BackToSearch == Idle /\ page.view = "similar" /\ main("back_to_search", "", widget_state)

PreviousResults ==
    /\ Idle /\ page.view = "similar"
    /\ similar_docs # <<>> /\ Len(similar_doc_history) > 1
    /\ main("previous", "", widget_state)

ViewDocument ==
    /\ Idle /\ page.view = "similar"
    /\ \E i \in 1..Len(similar_docs) :
          main("view_similar", similar_docs[i].document, widget_state)

Next ==
    \/ Rerun
    \/ TypeQuery
    \/ ClickView
    \/ ClickBack
    \/ ToggleCheckbox
    \/ ClearEntities
    \/ FindSimilar
    \/ BackToSearch
    \/ PreviousResults
    \/ ViewDocument

Spec == Init /\ [][Next]_vars

-----------------------------------------------------------------------------
(* Properties of the application, checked under Spec.                       *)

NoneSelected ==
    selected_people = {} /\ selected_organizations = {} /\ selected_locations = {}

SelectWarning == "Please select at least one entity to find similar documents."
NoSimilarInfo == "No similar documents found with the selected entities."
RelatedError == "Error querying related documents"

\* C1: every run of main() renders the view that the two flags it found
\* select: the document view when viewing_document is true, whatever
\* show_similar_docs is; otherwise the similar-documents list when
\* show_similar_docs is true; otherwise the search page.
C1_ViewChosenByFlags ==
    page.view # "none" =>
        page.view = IF page.saw[1] THEN "document"
                    ELSE IF page.saw[2] THEN "similar"
                    ELSE "search"

\* a document is shown while both flags are true
C1_Witness ==
    /\ page.view = "document" /\ page.saw = <<TRUE, TRUE>>
    /\ page.displayed # NONE_DOC /\ ~rerun

\* C2: when the search service raises on the search page, the error is
\* shown, no exception leaves main(), search_results is the empty list and
\* the page has no result groups.
C2_SearchFailureSurfaced ==
    (page.view = "search" /\ "search" \in page.failed) =>
        /\ "Search failed" \in page.messages
        /\ page.raised = ""
        /\ search_results = <<>>
        /\ page.groups = <<>> /\ page.buttons = {} /\ page.total = -1

\* the service raised on a search that replaced earlier results
C2_Witness ==
    /\ page.view = "search" /\ "search" \in page.failed /\ page.event = "view"
    /\ search_results = <<>>

\* C3: when the graph query raises on a Find Similar Documents click, the
\* error is shown and no exception leaves main(); the click ends with
\* show_similar_docs true and similar_docs empty, and the rerun renders the
\* "No similar documents found" page.
C3_GraphFailureSurfaced ==
    [][/\ (~rerun /\ page'.event = "similar" /\ "graph" \in page'.failed) =>
            /\ RelatedError \in page'.messages
            /\ page'.raised = ""
            /\ show_similar_docs' /\ similar_docs' = <<>> /\ rerun'
       /\ (rerun /\ page.event = "similar" /\ "graph" \in page.failed) =>
            /\ page'.view = "similar"
            /\ NoSimilarInfo \in page'.messages
            /\ page'.raised = ""]_vars

\* a click whose graph query raised, made from the similar-documents flow
C3_Witness ==
    /\ page.event = "similar" /\ "graph" \in page.failed /\ rerun
    /\ RelatedError \in page.messages
    /\ Len(similar_doc_history) = 2

\* C4: generate_summary never raises for the content that the document view
\* passes it.
C4_SummaryNeverRaises ==
    page.view = "document" => page.raised # "AttributeError"

\* C5: the summary shown with a document is a summary that generate_summary
\* returns for that document's own merged_content.
C5_SummaryOfDisplayedDocument ==
    (page.displayed # NONE_DOC /\ page.raised = "") =>
        \E llm_ok \in BOOLEAN :
            page.summary = generate_summary(Get(page.displayed.merged_content, ""), llm_ok).text

\* C6: a Find Similar Documents click while nothing is selected changes none
\* of show_similar_docs, viewing_document, search_results, similar_docs and
\* similar_doc_history, submits no graph query and shows the warning.
C6_NoPivotWithoutEntities ==
    [][(DocumentShown /\ NoneSelected /\ page'.event = "similar") =>
            /\ UNCHANGED <<show_similar_docs, viewing_document, search_results,
                           similar_docs, similar_doc_history>>
            /\ page'.queries = <<>>
            /\ page'.messages = {SelectWarning}
            /\ ~rerun']_vars

\* the warning, on a document that lists entities
C6_Witness ==
    /\ page.event = "similar" /\ page.view = "document" /\ ~rerun
    /\ SelectWarning \in page.messages
    /\ page.displayed.people # <<>>
    /\ NoneSelected

\* C10: after a Clear Entities click and the rerun it triggers, nothing is
\* selected.
C10_ClearEntitiesClears ==
    (page.event = "clear" /\ ~rerun /\ page.view = "document"
        /\ page.displayed # NONE_DOC) => NoneSelected

-----------------------------------------------------------------------------
(* The functions on their own: FnSpec draws an input for one of             *)
(* get_related_documents, group_by_library and the metadata section of      *)
(* display_document_content, and applies the function to it.                *)

NamePool == <<"Ann", "Bob", "Cy", "Di", "Eve">>
SelectionNames == {NamePool[i] : i \in 1..MaxSelected}

QueryInputs ==
    {[name |-> "get_related_documents",
      input |-> [people |-> p, organizations |-> o, locations |-> l, graph |-> g],
      output |-> <<>>, done |-> FALSE] :
        p \in SUBSET SelectionNames, o \in SUBSET SelectionNames,
        l \in SUBSET SelectionNames, g \in GraphOutcomes}

\* results that differ in their Library (also None and missing) and name
GroupDocs ==
    {Doc(n, lib, "short text", <<>>, <<>>, <<>>, <<>>) :
        n \in {"A", "B"}, lib \in {General, Ayala_Legal_Docs, LIB_ABSENT, LIB_NULL}}

GroupInputs ==
    {[name |-> "group_by_library", input |-> r, output |-> <<>>, done |-> FALSE] :
        r \in UNION {[1..k -> GroupDocs] : k \in 0..MaxGroupInput}}

FieldsOf(library) == {MetadataFields(library)[i][2] : i \in 1..Len(MetadataFields(library))}

\* the fields of a dictionary as the sequence of its items, missing keys left out
MetaOf(library, values) ==
    LET fields == MetadataFields(library)
        present == SelectSeq(fields, LAMBDA f : values[f[2]] # ABSENT)
    IN  [i \in 1..Len(present) |-> <<present[i][2], values[present[i][2]]>>]

MetadataLibraries == KnownLibraries \cup {<<"Other">>, UnknownLibrary, LIB_ABSENT, LIB_NULL}

\* a document of the library with these values of its fields
MetadataInput(lib, values) ==
    [name |-> "metadata",
     input |-> [doc |-> Doc("A", lib, "short text", <<>>, <<>>, <<>>, MetaOf(lib, values)),
                values |-> values],
     output |-> <<>>, done |-> FALSE]

FnInit ==
    /\ search_results = NONE_LIST
    /\ selected_doc_id = NONE_ID
    /\ selected_people = {}
    /\ selected_organizations = {}
    /\ selected_locations = {}
    /\ show_similar_docs = FALSE
    /\ similar_docs = <<>>
    /\ similar_doc_history = <<>>
    /\ current_doc_content = NONE_DOC
    /\ document_summaries = {}
    /\ viewing_document = FALSE
    /\ widget_state = {}
    /\ search_query = ""
    /\ rerun = FALSE
    /\ page = BlankPage
    /\ \/ fn \in QueryInputs
       \/ fn \in GroupInputs
       \/ \* a document of each library, each of its fields set, empty, None or missing
          \E lib \in MetadataLibraries :
             \E values \in [FieldsOf(lib) -> {"memo", "", NULL, ABSENT}] :
                fn = MetadataInput(lib, values)

ApplyRelated ==
    /\ fn.name = "get_related_documents" /\ ~fn.done
    /\ \E people_list \in ListsOf(fn.input.people),
          orgs_list \in ListsOf(fn.input.organizations),
          locations_list \in ListsOf(fn.input.locations) :
          fn' = [fn EXCEPT !.done = TRUE,
                           !.output = get_related_documents(people_list, orgs_list,
                                                            locations_list, fn.input.graph)]
    /\ UNCHANGED <<session, widget_state, search_query, rerun, page>>

ApplyGroup ==
    /\ fn.name = "group_by_library" /\ ~fn.done
    /\ LET grouped_results == group_by_library(fn.input)
       IN  fn' = [fn EXCEPT !.done = TRUE,
                            !.output = [groups |-> grouped_results,
                                        total |-> TotalResults(grouped_results, 1)]]
    /\ UNCHANGED <<session, widget_state, search_query, rerun, page>>

ApplyMetadata ==
    /\ fn.name = "metadata" /\ ~fn.done
    /\ fn' = [fn EXCEPT !.done = TRUE, !.output = DocumentMetadata(fn.input.doc)]
    /\ UNCHANGED <<session, widget_state, search_query, rerun, page>>

FnNext == ApplyRelated \/ ApplyGroup \/ ApplyMetadata

FnSpec == FnInit /\ [][FnNext]_vars

-----------------------------------------------------------------------------
(* Properties of the functions, checked under FnSpec.                       *)

Applied(name) == fn.name = name /\ fn.done

\* the labels of the categories, in the order of the claim
CategoryLabels == <<"peopl", "organization", "location">>

Category(input, label) ==
    CASE label = "peopl" -> input.people
      [] label = "organization" -> input.organizations
      [] label = "location" -> input.locations

\* C7: get_related_documents submits no query and returns [] when the three
\* selections are empty; otherwise it submits one query whose or-clause has
\* one condition per non-empty category, in the order people (label
\* 'peopl'), organizations ('organization'), locations ('location'), each
\* listing the selected names of its category, each name once.
C7_QueryConditions ==
    Applied("get_related_documents") =>
        LET input == fn.input
            out == fn.output
            labels == SelectSeq(CategoryLabels, LAMBDA c : Category(input, c) # {})
        IN  IF labels = <<>>
            THEN out.queries = <<>> /\ out.result = <<>>
            ELSE /\ Len(out.queries) = 1
                 /\ LET or_clause == out.queries[1].or_clause
                    IN  /\ Len(or_clause) = Len(labels)
                        /\ \A i \in 1..Len(labels) :
                              /\ or_clause[i].label = labels[i]
                              /\ Range(or_clause[i].names) = Category(input, labels[i])
                              /\ Len(or_clause[i].names) =
                                     Cardinality(Category(input, labels[i]))

\* a query with the three conditions, one of them on two names
C7_Witness ==
    /\ Applied("get_related_documents")
    /\ Len(fn.output.queries) = 1
    /\ Len(fn.output.queries[1].or_clause) = 3
    /\ Len(fn.output.queries[1].or_clause[2].names) = 2

\* the key under which group_by_library files a result
GroupKey(result) == IF result.Library = LIB_ABSENT THEN <<"Unknown Library">> ELSE result.Library

\* C8: group_by_library partitions its input: the groups have distinct keys,
\* each group holds, in input order, exactly the results whose Library is its
\* key ('Unknown Library' for a result without the key), every result has its
\* group, and the group sizes add up to the number of results.
C8_GroupsPartition ==
    Applied("group_by_library") =>
        LET results == fn.input
            groups == fn.output.groups
        IN  /\ \A i, j \in 1..Len(groups) :
                  i # j => groups[i].library # groups[j].library
            /\ \A i \in 1..Len(groups) :
                  /\ groups[i].docs # <<>>
                  /\ groups[i].docs =
                         SelectSeq(results, LAMBDA r : GroupKey(r) = groups[i].library)
            /\ \A k \in 1..Len(results) :
                  \E i \in 1..Len(groups) : groups[i].library = GroupKey(results[k])
            /\ fn.output.total = Len(results)

\* the same result twice and a result without Library, in three results
C8_Witness ==
    /\ Applied("group_by_library")
    /\ Len(fn.input) = 3
    /\ fn.input[1] = fn.input[3]
    /\ fn.input[2].Library = LIB_ABSENT
    /\ Len(fn.output.groups) = 2

\* C9: for a document of one of the seven known libraries the document view
\* shows the rows of that library's fields, "N/A" where the value is missing,
\* None or empty and the value otherwise, and these fields include every
\* column of the library's results table; for any other Library it shows no
\* row but the "No specific metadata fields available" line.
C9_MetadataByLibrary ==
    Applied("metadata") =>
        LET library == fn.input.doc.Library
            values == fn.input.values
            out == fn.output
        IN  IF library \in {General, HR, Florix, DFTROPIO, Finance,
                            Ayala_Annual_Report, Ayala_Legal_Docs}
            THEN /\ ~out.no_fields_message
                 /\ {out.rows[i].field : i \in 1..Len(out.rows)} = DOMAIN values
                 /\ Len(out.rows) = Cardinality(DOMAIN values)
                 /\ \A i \in 1..Len(out.rows) :
                       out.rows[i].value =
                           IF values[out.rows[i].field] \in {ABSENT, NULL, ""}
                           THEN "N/A" ELSE values[out.rows[i].field]
                 /\ \A c \in Range(TableColumns(library)) :
                       \E i \in 1..Len(out.rows) : out.rows[i].field = c
            ELSE out.rows = <<>> /\ out.no_fields_message

\* an HR document with a missing, a None, an empty and a set field
C9_Witness ==
    /\ Applied("metadata")
    /\ fn.input.doc.Library = HR
    /\ fn.input.values["Country_HR"] = ABSENT
    /\ fn.input.values["Name_HR"] = NULL
    /\ fn.input.values["Date_HR"] = ""
    /\ fn.input.values["Department_HR"] = "memo"
    /\ Len(fn.output.rows) = 6

-----------------------------------------------------------------------------
(* Properties of the similar-documents flow, the summary cache and the      *)
(* document lookup, checked under Spec.                                     *)

\* list(a_set) of a selected set: every element once
IsListOf(list, S) == Range(list) = S /\ Len(list) = Cardinality(S)

\* C11: a Find Similar Documents click with something selected sets
\* show_similar_docs, clears viewing_document, sets search_results to None,
\* appends exactly one entry to similar_doc_history whose three lists are the
\* current selections, queries the graph for those selections and stores
\* what get_related_documents returned in similar_docs; the three selected
\* sets are left as they were.
C11_FindSimilarEffects ==
    [][(DocumentShown /\ page'.event = "similar" /\ ~NoneSelected) =>
          LET n == Len(similar_doc_history)
              entry == similar_doc_history'[n + 1]
          IN  /\ show_similar_docs' /\ ~viewing_document'
              /\ search_results' = NONE_LIST
              /\ Len(similar_doc_history') = n + 1
              /\ \A i \in 1..n : similar_doc_history'[i] = similar_doc_history[i]
              /\ IsListOf(entry.people, selected_people)
              /\ IsListOf(entry.organizations, selected_organizations)
              /\ IsListOf(entry.locations, selected_locations)
              /\ page'.queries =
                    get_related_documents(entry.people, entry.organizations,
                                          entry.locations,
                                          [fails |-> FALSE, docs |-> <<>>]).queries
              /\ page'.queries # <<>>
              /\ similar_docs' = page'.related
              /\ ("graph" \in page'.failed => page'.related = <<>>)
              /\ UNCHANGED <<selected_people, selected_organizations, selected_locations>>
              /\ rerun']_vars

\* a second pivot, with a person and an organization selected, that found
\* documents
C11_Witness ==
    /\ page.event = "similar" /\ page.view = "document" /\ rerun
    /\ Len(similar_doc_history) = 2
    /\ selected_people # {} /\ selected_organizations # {}
    /\ Last(similar_doc_history).organizations # <<>>
    /\ similar_docs # <<>> /\ show_similar_docs /\ ~viewing_document

\* C12: a Previous Results click happens only on a similar-documents list
\* whose history has more than one entry; it removes exactly the last entry,
\* sets the three selected sets to the entities of the entry that is then
\* last and current_doc_content to None, and leaves the history non-empty.
C12_PreviousResultsRestores ==
    [][(~rerun /\ page'.event = "previous") =>
          LET n == Len(similar_doc_history)
          IN  /\ page.view = "similar" /\ n > 1
              /\ Len(similar_doc_history') = n - 1
              /\ \A i \in 1..(n - 1) : similar_doc_history'[i] = similar_doc_history[i]
              /\ selected_people' = Range(similar_doc_history[n - 1].people)
              /\ selected_organizations' = Range(similar_doc_history[n - 1].organizations)
              /\ selected_locations' = Range(similar_doc_history[n - 1].locations)
              /\ current_doc_content' = NONE_DOC
              /\ similar_doc_history' # <<>>
              /\ rerun']_vars

\* the click has restored the person of the first pivot and emptied the
\* document the list was left for
C12_Witness ==
    /\ page.event = "previous" /\ rerun /\ page.view = "similar"
    /\ Len(similar_doc_history) = 1
    /\ selected_people = {"p1"} /\ selected_locations = {}
    /\ page.queries # <<>>
    /\ current_doc_content = NONE_DOC

\* C13: while show_similar_docs is true, similar_docs is what
\* get_related_documents returned for the entities of the last entry of
\* similar_doc_history: a run that queries the graph queries it for that
\* entry and stores the result, also an empty one and that of a failed
\* query, and a run that does not query changes neither.
C13_SimilarDocsOfLastEntry ==
    [][show_similar_docs' =>
          LET entry == similar_doc_history'[Len(similar_doc_history')]
          IN  IF page'.queries # <<>>
              THEN /\ page'.queries =
                         get_related_documents(entry.people, entry.organizations,
                                               entry.locations,
                                               [fails |-> FALSE, docs |-> <<>>]).queries
                   /\ similar_docs' = page'.related
              ELSE /\ show_similar_docs
                   /\ similar_docs' = similar_docs
                   /\ entry = similar_doc_history[Len(similar_doc_history)]]_vars

\* C14: document_summaries holds one summary per document name, generated the
\* first time a document of that name is displayed: no step changes or
\* removes an entry, an entry is added only for a name that had none, and the
\* LLM is not called (so cannot fail) for a name that has one, also when the
\* stored text is an 'Error generating summary' message.
C14_SummaryGeneratedOnce ==
    [][/\ \A e \in document_summaries : e \in document_summaries'
       /\ \A e \in document_summaries' \ document_summaries :
             ~ \E f \in document_summaries : f.name = e.name
       /\ \A e1, e2 \in document_summaries' : e1.name = e2.name => e1 = e2
       /\ "llm" \in page'.failed =>
             ~ \E f \in document_summaries :
                  f.name = Get(page'.displayed.DocumentName, "Untitled Document")]_vars

\* a stored error message is shown again, with no new call of the LLM
C14_Witness ==
    /\ page.view = "document" /\ page.event = "toggle" /\ ~rerun
    /\ page.summary.kind = "Error generating summary: "
    /\ "llm" \notin page.failed
    /\ document_summaries = {[name |-> "A", text |-> page.summary]}

\* the names of one kind whose checkbox the last run rendered checked
Checked(kind) == {w.id[3] : w \in {v \in widget_state : v.id[1] = kind /\ v.value}}

\* C15: after a document opened from the similar-documents list has been
\* rendered, each selected set holds only entities that the document lists
\* and whose checkbox is checked: nothing of the selection that produced the
\* list is carried over.
C15_SimilarViewResetsSelections ==
    (page.view = "document" /\ page.saw = <<TRUE, TRUE>>
        /\ page.displayed # NONE_DOC /\ page.raised = "") =>
        /\ selected_people \subseteq Range(page.displayed.people) \cap Checked("person")
        /\ selected_organizations \subseteq
              Range(page.displayed.organizations) \cap Checked("org")
        /\ selected_locations \subseteq
              Range(page.displayed.locations) \cap Checked("location")

\* the list was found for person p1; the document opened from it does not
\* list p1, and only its checked location is selected
C15_Witness ==
    /\ page.view = "document" /\ page.saw = <<TRUE, TRUE>> /\ ~rerun
    /\ page.displayed # NONE_DOC /\ page.raised = ""
    /\ Last(similar_doc_history).people = <<"p1">>
    /\ "p1" \notin Range(page.displayed.people)
    /\ selected_people = {} /\ selected_locations = {"l1"}

\* the doc ids of the rows of one rendered group
RowIds(group) == display_library_documents(group.library, group.docs)

\* C16: for every row of the results page, the doc id of its view button is
\* parsed by main() to the row's library and index, no other row has the
\* same doc id, and the lookup with the parsed values finds the row's
\* document; the document shown after a click on a view button is the
\* document of the row with that doc id.
C16_ViewButtonOpensItsRow ==
    /\ page.view = "search" =>
          \A i \in 1..Len(page.groups) : \A k \in 1..Len(page.groups[i].docs) :
             LET doc_id == RowIds(page.groups[i])[k]
                 parsed == ParseDocId(doc_id)
                 library_docs == LibraryDocs(page.groups, parsed.library)
             IN  /\ parsed.library = page.groups[i].library
                 /\ parsed.idx = k - 1
                 /\ \A j \in 1..Len(page.groups) : \A m \in 1..Len(page.groups[j].docs) :
                       RowIds(page.groups[j])[m] = doc_id => (j = i /\ m = k)
                 /\ parsed.idx < Len(library_docs)
                 /\ library_docs[parsed.idx + 1] = page.groups[i].docs[k]
    /\ (page.view = "document" /\ page.event = "view" /\ page.raised = "") =>
          LET groups == group_by_library(search_results)
          IN  \E i \in 1..Len(groups) : \E k \in 1..Len(groups[i].docs) :
                 /\ RowIds(groups[i])[k] = selected_doc_id
                 /\ page.displayed = groups[i].docs[k]

\* C17: whenever viewing_document is true, either show_similar_docs is true
\* and current_doc_content is set, or search_results is a non-empty list and
\* selected_doc_id names a library that is the key of one of its groups,
\* with an index below the size of that group; and a run of the document
\* view that is not ended by the back button or an exception displays a
\* document.
C17_ViewedDocumentExists ==
    /\ viewing_document =>
          \/ show_similar_docs /\ current_doc_content # NONE_DOC
          \/ /\ search_results # NONE_LIST /\ search_results # <<>>
             /\ selected_doc_id # NONE_ID
             /\ LET parsed == ParseDocId(selected_doc_id)
                    groups == group_by_library(search_results)
                IN  \E i \in 1..Len(groups) :
                       /\ groups[i].library = parsed.library
                       /\ parsed.idx < Len(groups[i].docs)
    /\ (page.view = "document" /\ page.raised = "" /\ ~(page.event = "back" /\ rerun)) =>
          page.displayed # NONE_DOC

\* C18: similar_doc_history is non-empty exactly when show_similar_docs is
\* true, and on the search page current_doc_content is None.
C18_HistoryIffSimilar ==
    /\ show_similar_docs => Len(similar_doc_history) >= 1
    /\ ~show_similar_docs =>
          /\ similar_doc_history = <<>>
          /\ page.view = "search" => current_doc_content = NONE_DOC

\* the search page, back from a similar-documents list
C18_Witness ==
    /\ page.view = "search" /\ page.event = "back_to_search" /\ ~rerun
    /\ ~show_similar_docs /\ similar_doc_history = <<>>
    /\ current_doc_content = NONE_DOC
    /\ similar_docs = <<>> /\ selected_locations # {}

====
